---------------------------- MODULE Spec2Model ----------------------------
(***************************************************************************)
(* A model of the recruitment pipeline of src/recruitment: the match       *)
(* scorer, the response sanitizer, the retried provider call, the two      *)
(* extraction entry points and the upload view that sequences them.        *)
(*                                                                         *)
(* Text is a sequence of one-character strings.  A Python value is a       *)
(* record [t, v]: t is the type tag, v the payload (a character sequence   *)
(* for "str", a function from keys to values for "dict", a number for      *)
(* "num", a sequence of values for "list").  A float score is held in      *)
(* hundredths, as round(score, 2) leaves it: 3333 is 33.33.                 *)
(***************************************************************************)
EXTENDS Integers, Sequences, FiniteSets, TLC

VARIABLES
    cv_data,        \* calculate_match_score: first argument; upload: cv_data
    jd_summary,     \* calculate_match_score: second argument; upload: jd_summary
    score_out,      \* calculate_match_score(cv_data, jd_summary): its outcome
    swapped_out,    \* calculate_match_score(jd_summary, cv_data): its outcome
    script,         \* make_api_call: what the provider answers, attempt by attempt
    api_out,        \* make_api_call: its outcome
    generate_calls, \* make_api_call: calls of model.generate_content it made
    delays,         \* make_api_call: the waits between its attempts, in order
    san_object,     \* sanitizer: the JSON object the text was written from
    san_form,       \* sanitizer: how it was written ("strict" or "single_fenced")
    san_text,       \* sanitizer: the text given to clean_json_response
    san_once,       \* sanitizer: clean_json_response(san_text)
    san_twice,      \* sanitizer: clean_json_response(san_once)
    san_parsed,     \* sanitizer: json.loads(san_once)
    ext_fn,         \* extraction: the entry point called ("cv" or "jd")
    ext_doc,        \* extraction: the PDF given
    ext_env,        \* extraction: what the key check and the provider answer
    ext_out,        \* extraction: its outcome
    ext_calls,      \* extraction: the external calls it made, in order
    ext_text,       \* extraction: the text it read from the pages
    pc,             \* upload: where the view is ("idle", "job", "cvs", "done")
    cv_files,       \* upload: the number of CV files of the request
    cv_index,       \* upload: the CV files the loop has been through
    jd_result,      \* upload: what summarize_jd returned
    job_title,      \* upload: job_title
    match_score,    \* upload: match_score of the CV file last gone through
    candidates,     \* upload: the list candidates
    effects,        \* upload: how often the run did each thing outside the view
    response        \* upload: what the view rendered

scoreVars == <<cv_data, jd_summary, score_out, swapped_out>>
retryVars == <<script, api_out, generate_calls, delays>>
sanVars == <<san_object, san_form, san_text, san_once, san_twice, san_parsed>>
extVars == <<ext_fn, ext_doc, ext_env, ext_out, ext_calls, ext_text>>
runVars == <<pc, cv_files, cv_index, jd_result, job_title, match_score,
             candidates, effects, response>>

vars == <<cv_data, jd_summary, score_out, swapped_out,
          script, api_out, generate_calls, delays,
          san_object, san_form, san_text, san_once, san_twice, san_parsed,
          ext_fn, ext_doc, ext_env, ext_out, ext_calls, ext_text,
          pc, cv_files, cv_index, jd_result, job_title, match_score,
          candidates, effects, response>>

-----------------------------------------------------------------------------
(* Python values *)

PyNone == [t |-> "none", v |-> <<>>]
PyStr(s) == [t |-> "str", v |-> s]
PyNum(n) == [t |-> "num", v |-> n]
PyList(items) == [t |-> "list", v |-> items]
PyDict(m) == [t |-> "dict", v |-> m]

EmptyDict == PyDict(<<>>)

\* isinstance(x, dict)
IsDict(x) == x.t = "dict"

\* key in d, for a dict d
HasKey(d, key) == key \in DOMAIN d.v

\* d.get(key, default), for a dict d
DictGet(d, key, default) == IF HasKey(d, key) THEN d.v[key] ELSE default

\* bool(x): Python's truth value
Truthy(x) ==
    CASE x.t = "none" -> FALSE
      [] x.t = "str"  -> Len(x.v) > 0
      [] x.t = "num"  -> x.v # 0
      [] x.t = "list" -> Len(x.v) > 0
      [] x.t = "dict" -> DOMAIN x.v # {}
      [] x.t = "bool" -> x.v
      [] x.t = "float" -> \E i \in 1..Len(x.v) : x.v[i] \notin {"0", ".", "-"}
      [] OTHER -> TRUE

\* What a call does: it returns a value or raises an exception.
Return(x) == [kind |-> "return", value |-> x, exc |-> "none"]
Raise(e) == [kind |-> "raise", value |-> PyNone, exc |-> e]
NotCalled == [kind |-> "not_called", value |-> PyNone, exc |-> "none"]

-----------------------------------------------------------------------------
(* Characters and strings *)

Whitespace == {" ", "\n", "\t"}

\* str.lower() on one character
LowerChar(c) ==
    CASE c = "A" -> "a"
      [] c = "B" -> "b"
      [] c = "C" -> "c"
      [] OTHER -> c

\* str.lower()
Lower(s) == [i \in 1..Len(s) |-> LowerChar(s[i])]

\* str.split(): the maximal runs of non-whitespace characters, in order
RECURSIVE SplitFrom(_, _, _)
SplitFrom(s, i, cur) ==
    IF i > Len(s)
    THEN IF cur = <<>> THEN <<>> ELSE <<cur>>
    ELSE IF s[i] \in Whitespace
         THEN IF cur = <<>>
              THEN SplitFrom(s, i + 1, <<>>)
              ELSE <<cur>> \o SplitFrom(s, i + 1, <<>>)
         ELSE SplitFrom(s, i + 1, Append(cur, s[i]))

Split(s) == SplitFrom(s, 1, <<>>)

\* set(seq)
ToSet(seq) == {seq[i] : i \in 1..Len(seq)}

\* round(num / den * 100, 2) in hundredths: the integer nearest to
\* 10000 * num / den, a tie going to the even one (Python's round)
Round2Percent(num, den) ==
    LET q == (10000 * num) \div den
        r == (10000 * num) % den
    IN  IF 2 * r < den THEN q
        ELSE IF 2 * r > den THEN q + 1
        ELSE IF q % 2 = 0 THEN q ELSE q + 1

-----------------------------------------------------------------------------
(* calculate_match_score *)

KeySummary == <<"s", "u", "m", "m", "a", "r", "y">>
KeyName == <<"n", "a", "m", "e">>

\* x.lower() where x is whatever .get('summary', '') gave: only a str has it
LowerOf(x) == IF x.t = "str" THEN Return(PyStr(Lower(x.v))) ELSE Raise("AttributeError")

\* The body of the try block of calculate_match_score.
MutScoreBodyCvDenominator(cv, jd) ==
    IF ~IsDict(cv) \/ ~IsDict(jd) THEN Return(PyNum(0))
    ELSE IF ~HasKey(cv, KeySummary) \/ ~HasKey(jd, KeySummary) THEN Return(PyNum(0))
    ELSE LET cvl == LowerOf(DictGet(cv, KeySummary, PyStr(<<>>)))
             jdl == LowerOf(DictGet(jd, KeySummary, PyStr(<<>>)))
         IN  IF cvl.kind = "raise" THEN cvl
             ELSE IF jdl.kind = "raise" THEN jdl
             ELSE LET cv_words == ToSet(Split(cvl.value.v))
                      jd_words == ToSet(Split(jdl.value.v))
                      common_words == cv_words \cap jd_words
                  IN  Return(PyNum(IF cv_words # {}
                                   THEN Round2Percent(Cardinality(common_words),
                                                      Cardinality(cv_words))
                                   ELSE 0))

MutScoreBodyUnionDenominator(cv, jd) ==
    IF ~IsDict(cv) \/ ~IsDict(jd) THEN Return(PyNum(0))
    ELSE IF ~HasKey(cv, KeySummary) \/ ~HasKey(jd, KeySummary) THEN Return(PyNum(0))
    ELSE LET cvl == LowerOf(DictGet(cv, KeySummary, PyStr(<<>>)))
             jdl == LowerOf(DictGet(jd, KeySummary, PyStr(<<>>)))
         IN  IF cvl.kind = "raise" THEN cvl
             ELSE IF jdl.kind = "raise" THEN jdl
             ELSE LET cv_words == ToSet(Split(cvl.value.v))
                      jd_words == ToSet(Split(jdl.value.v))
                      common_words == cv_words \cap jd_words
                  IN  Return(PyNum(IF jd_words # {}
                                   THEN Round2Percent(Cardinality(common_words),
                                                      Cardinality(cv_words \cup jd_words))
                                   ELSE 0))

ScoreBody(cv, jd) ==
    IF ~IsDict(cv) \/ ~IsDict(jd) THEN Return(PyNum(0))
    ELSE IF ~HasKey(cv, KeySummary) \/ ~HasKey(jd, KeySummary) THEN Return(PyNum(0))
    ELSE LET cvl == LowerOf(DictGet(cv, KeySummary, PyStr(<<>>)))
             jdl == LowerOf(DictGet(jd, KeySummary, PyStr(<<>>)))
         IN  IF cvl.kind = "raise" THEN cvl
             ELSE IF jdl.kind = "raise" THEN jdl
             ELSE LET cv_words == ToSet(Split(cvl.value.v))
                      jd_words == ToSet(Split(jdl.value.v))
                      common_words == cv_words \cap jd_words
                  IN  Return(PyNum(IF jd_words # {}
                                   THEN Round2Percent(Cardinality(common_words),
                                                      Cardinality(jd_words))
                                   ELSE 0))

\* calculate_match_score: the body under its "except Exception: return 0.0"
MutScoreNoExcept(cv, jd) == ScoreBody(cv, jd)

calculate_match_score(cv, jd) ==
    LET r == ScoreBody(cv, jd)
    IN  IF r.kind = "raise" THEN Return(PyNum(0)) ELSE r

-----------------------------------------------------------------------------
(* clean_json_response *)

\* The typographic quotes, one token each: LSQ and RSQ are the left and right
\* single quotation marks (U+2018, U+2019), LDQ and RDQ the double ones
\* (U+201C, U+201D), and BT is the backtick.  Every other character is its
\* own one-character string.
DQ == "\""
SQ == "'"
BS == "\\"
BT == "BT"

\* str.strip()
RECURSIVE LStrip(_)
LStrip(s) == IF s # <<>> /\ Head(s) \in Whitespace THEN LStrip(Tail(s)) ELSE s

RECURSIVE RStrip(_)
RStrip(s) ==
    IF s # <<>> /\ s[Len(s)] \in Whitespace THEN RStrip(SubSeq(s, 1, Len(s) - 1)) ELSE s

Strip(s) == RStrip(LStrip(s))

\* text.replace of the four typographic quotes by the ASCII ones
NormalizeChar(c) ==
    CASE c = "RSQ" -> SQ
      [] c = "LSQ" -> SQ
      [] c = "LDQ" -> DQ
      [] c = "RDQ" -> DQ
      [] OTHER -> c

NormalizeQuotes(s) == [i \in 1..Len(s) |-> NormalizeChar(s[i])]

StartsWith(s, prefix) ==
    Len(prefix) <= Len(s) /\ SubSeq(s, 1, Len(prefix)) = prefix

EndsWith(s, suffix) ==
    Len(suffix) <= Len(s) /\ SubSeq(s, Len(s) - Len(suffix) + 1, Len(s)) = suffix

\* text[a:-b], for a, b > 0
Slice(s, a, b) == SubSeq(s, a + 1, Len(s) - b)

Fence == <<BT, BT, BT>>
FenceJson == <<BT, BT, BT, "j", "s", "o", "n">>

\* The removal of a Markdown code block around the text.
StripFence(s) ==
    IF StartsWith(s, FenceJson) /\ EndsWith(s, Fence) THEN Strip(Slice(s, 7, 3))
    ELSE IF StartsWith(s, Fence) /\ EndsWith(s, Fence) THEN Strip(Slice(s, 3, 3))
    ELSE s

\* re.sub(r'[\.,;]\s*}$', '}', text): a '.', ',' or ';' followed by whitespace
\* only and the text's last character '}' goes, with that whitespace.  (The
\* text is stripped, so '$' can only be its end.)
TrailingPunctAt(s, i) ==
    /\ s[i] \in {".", ",", ";"}
    /\ s[Len(s)] = "}"
    /\ i < Len(s)
    /\ \A k \in (i + 1)..(Len(s) - 1) : s[k] \in Whitespace \cup {"\r"}

DropTrailingPunct(s) ==
    IF \E i \in 1..Len(s) : TrailingPunctAt(s, i)
    THEN LET i == CHOOSE k \in 1..Len(s) :
                    /\ TrailingPunctAt(s, k)
                    /\ \A m \in 1..(k - 1) : ~TrailingPunctAt(s, m)
         IN  SubSeq(s, 1, i - 1) \o <<"}">>
    ELSE s

\* The least index k >= i with s[k] = c, or 0
RECURSIVE IndexFrom(_, _, _)
IndexFrom(s, c, i) ==
    IF i > Len(s) THEN 0
    ELSE IF s[i] = c THEN i
    ELSE IndexFrom(s, c, i + 1)

\* content.replace("'", "\\'")
RECURSIVE EscapeQuotes(_)
EscapeQuotes(s) ==
    IF s = <<>> THEN <<>>
    ELSE IF Head(s) = SQ THEN <<BS, SQ>> \o EscapeQuotes(Tail(s))
    ELSE <<Head(s)>> \o EscapeQuotes(Tail(s))

\* re.sub(r'"([^"]*)"', escape_single_quotes, text): left to right, each '"'
\* pairs with the next one, and the single quotes between the two are escaped.
RECURSIVE EscapeInDoubleQuotedFrom(_, _)
EscapeInDoubleQuotedFrom(s, i) ==
    LET open == IndexFrom(s, DQ, i)
        close == IF open = 0 THEN 0 ELSE IndexFrom(s, DQ, open + 1)
    IN  IF close = 0 THEN SubSeq(s, i, Len(s))
        ELSE SubSeq(s, i, open - 1)
                 \o <<DQ>> \o EscapeQuotes(SubSeq(s, open + 1, close - 1)) \o <<DQ>>
                 \o EscapeInDoubleQuotedFrom(s, close + 1)

EscapeInDoubleQuoted(s) == EscapeInDoubleQuotedFrom(s, 1)

\* re.sub(r"'([^']*)'", r'"\1"', text): left to right, each "'" pairs with the
\* next one, and the two become '"'.
RECURSIVE SingleToDoubleFrom(_, _)
SingleToDoubleFrom(s, i) ==
    LET open == IndexFrom(s, SQ, i)
        close == IF open = 0 THEN 0 ELSE IndexFrom(s, SQ, open + 1)
    IN  IF close = 0 THEN SubSeq(s, i, Len(s))
        ELSE SubSeq(s, i, open - 1)
                 \o <<DQ>> \o SubSeq(s, open + 1, close - 1) \o <<DQ>>
                 \o SingleToDoubleFrom(s, close + 1)

MutSingleToDoubleOff(s) == s

SingleToDouble(s) == SingleToDoubleFrom(s, 1)

clean_json_response(text) ==
    SingleToDouble(
        EscapeInDoubleQuoted(
            DropTrailingPunct(
                StripFence(
                    NormalizeQuotes(
                        Strip(text))))))

-----------------------------------------------------------------------------
(* json.loads, as the extraction functions use it: strict JSON text to a   *)
(* Python value, or JSONDecodeError.  A parse gives [ok, val, next]: next  *)
(* is the index after what was read.                                        *)

JsonWs == {" ", "\t", "\n", "\r"}
Digits == {"0", "1", "2", "3", "4", "5", "6", "7", "8", "9"}
HexDigits == Digits \cup {"a", "b", "c", "d", "e", "f", "A", "B", "C", "D", "E", "F"}
ControlChars == {"\t", "\n", "\r", "\f"}

Failed == [ok |-> FALSE, val |-> PyNone, next |-> 0]
Parsed(x, n) == [ok |-> TRUE, val |-> x, next |-> n]

PyBool(b) == [t |-> "bool", v |-> b]
PyFloat(digits) == [t |-> "float", v |-> digits]

RECURSIVE SkipWs(_, _)
SkipWs(s, i) == IF i <= Len(s) /\ s[i] \in JsonWs THEN SkipWs(s, i + 1) ELSE i

\* The character a backslash escape stands for (BSP is the backspace), or ""
\* for none.
Unescape(c) ==
    CASE c = DQ -> DQ
      [] c = BS -> BS
      [] c = "/" -> "/"
      [] c = "b" -> "BSP"
      [] c = "f" -> "\f"
      [] c = "n" -> "\n"
      [] c = "r" -> "\r"
      [] c = "t" -> "\t"
      [] OTHER -> ""

\* A string's characters from index i (after the opening quote) to its
\* closing quote.  An unescaped control character, an unknown escape and a
\* missing closing quote are errors.  A \uXXXX escape is read as the one
\* token "U+" (the texts of this model hold none).
RECURSIVE ScanString(_, _, _)
ScanString(s, i, acc) ==
    IF i > Len(s) THEN Failed
    ELSE IF s[i] = DQ THEN Parsed(PyStr(acc), i + 1)
    ELSE IF s[i] \in ControlChars THEN Failed
    ELSE IF s[i] # BS THEN ScanString(s, i + 1, Append(acc, s[i]))
    ELSE IF i + 1 > Len(s) THEN Failed
    ELSE IF s[i + 1] = "u"
         THEN IF i + 5 <= Len(s) /\ \A k \in (i + 2)..(i + 5) : s[k] \in HexDigits
              THEN ScanString(s, i + 6, Append(acc, "U+"))
              ELSE Failed
    ELSE IF Unescape(s[i + 1]) = "" THEN Failed
    ELSE ScanString(s, i + 2, Append(acc, Unescape(s[i + 1])))

RECURSIVE DigitsEnd(_, _)
DigitsEnd(s, i) == IF i <= Len(s) /\ s[i] \in Digits THEN DigitsEnd(s, i + 1) ELSE i

DigitValue(c) ==
    CASE c = "0" -> 0 [] c = "1" -> 1 [] c = "2" -> 2 [] c = "3" -> 3 [] c = "4" -> 4
      [] c = "5" -> 5 [] c = "6" -> 6 [] c = "7" -> 7 [] c = "8" -> 8 [] c = "9" -> 9
      [] OTHER -> 0

RECURSIVE NatValue(_)
NatValue(ds) ==
    IF ds = <<>> THEN 0 ELSE 10 * NatValue(SubSeq(ds, 1, Len(ds) - 1)) + DigitValue(ds[Len(ds)])

\* A number at index i: -?(0|[1-9][0-9]*)(\.[0-9]+)?([eE][-+]?[0-9]+)?
ScanNumber(s, i) ==
    LET neg == i <= Len(s) /\ s[i] = "-"
        a == IF neg THEN i + 1 ELSE i
        b == IF a <= Len(s) /\ s[a] = "0" THEN a + 1 ELSE DigitsEnd(s, a)
        fracEnd == IF b + 1 <= Len(s) /\ s[b] = "." /\ s[b + 1] \in Digits
                   THEN DigitsEnd(s, b + 1) ELSE b
        signEnd == IF fracEnd + 1 <= Len(s) /\ s[fracEnd] \in {"e", "E"}
                      /\ s[fracEnd + 1] \in {"+", "-"}
                   THEN fracEnd + 2 ELSE fracEnd + 1
        expEnd == IF fracEnd <= Len(s) /\ s[fracEnd] \in {"e", "E"}
                     /\ signEnd <= Len(s) /\ s[signEnd] \in Digits
                  THEN DigitsEnd(s, signEnd) ELSE fracEnd
    IN  IF b = a THEN Failed
        ELSE IF expEnd = b
        THEN Parsed(PyNum((IF neg THEN -1 ELSE 1) * NatValue(SubSeq(s, a, b - 1))), b)
        ELSE Parsed(PyFloat(SubSeq(s, i, expEnd - 1)), expEnd)

LitNull == <<"n", "u", "l", "l">>
LitTrue == <<"t", "r", "u", "e">>
LitFalse == <<"f", "a", "l", "s", "e">>
LitNaN == <<"N", "a", "N">>
LitInfinity == <<"I", "n", "f", "i", "n", "i", "t", "y">>

At(s, i, lit) == i + Len(lit) - 1 <= Len(s) /\ SubSeq(s, i, i + Len(lit) - 1) = lit

RECURSIVE ScanValue(_, _)
RECURSIVE ScanMembers(_, _, _)
RECURSIVE ScanItems(_, _, _)

\* The members of an object from index i, which holds the '"' of a key; m is
\* what was read so far (a repeated key keeps its last value).
ScanMembers(s, i, m) ==
    IF i > Len(s) \/ s[i] # DQ THEN Failed
    ELSE LET key == ScanString(s, i + 1, <<>>)
             colon == IF key.ok THEN SkipWs(s, key.next) ELSE 0
             val == IF key.ok /\ colon <= Len(s) /\ s[colon] = ":"
                    THEN ScanValue(s, SkipWs(s, colon + 1)) ELSE Failed
             after == IF val.ok THEN SkipWs(s, val.next) ELSE 0
             m2 == IF val.ok
                   THEN [k \in DOMAIN m \cup {key.val.v} |->
                            IF k = key.val.v THEN val.val ELSE m[k]]
                   ELSE m
         IN  IF ~val.ok \/ after > Len(s) THEN Failed
             ELSE IF s[after] = "}" THEN Parsed(PyDict(m2), after + 1)
             ELSE IF s[after] = "," THEN ScanMembers(s, SkipWs(s, after + 1), m2)
             ELSE Failed

\* The items of an array from index i, which holds the first character of a value.
ScanItems(s, i, items) ==
    LET val == ScanValue(s, i)
        after == IF val.ok THEN SkipWs(s, val.next) ELSE 0
    IN  IF ~val.ok \/ after > Len(s) THEN Failed
        ELSE IF s[after] = "]" THEN Parsed(PyList(Append(items, val.val)), after + 1)
        ELSE IF s[after] = "," THEN ScanItems(s, SkipWs(s, after + 1), Append(items, val.val))
        ELSE Failed

ScanValue(s, i) ==
    IF i > Len(s) THEN Failed
    ELSE IF s[i] = DQ THEN ScanString(s, i + 1, <<>>)
    ELSE IF s[i] = "{"
         THEN LET j == SkipWs(s, i + 1)
              IN  IF j <= Len(s) /\ s[j] = "}" THEN Parsed(EmptyDict, j + 1)
                  ELSE ScanMembers(s, j, <<>>)
    ELSE IF s[i] = "["
         THEN LET j == SkipWs(s, i + 1)
              IN  IF j <= Len(s) /\ s[j] = "]" THEN Parsed(PyList(<<>>), j + 1)
                  ELSE ScanItems(s, j, <<>>)
    ELSE IF At(s, i, LitNull) THEN Parsed(PyNone, i + 4)
    ELSE IF At(s, i, LitTrue) THEN Parsed(PyBool(TRUE), i + 4)
    ELSE IF At(s, i, LitFalse) THEN Parsed(PyBool(FALSE), i + 5)
    ELSE IF At(s, i, LitNaN) THEN Parsed(PyFloat(LitNaN), i + 3)
    ELSE IF At(s, i, LitInfinity) THEN Parsed(PyFloat(LitInfinity), i + 8)
    ELSE IF At(s, i, <<"-">> \o LitInfinity) THEN Parsed(PyFloat(<<"-">> \o LitInfinity), i + 9)
    ELSE ScanNumber(s, i)

\* json.loads(text): the value, or JSONDecodeError (also when text follows
\* the value)
json_loads(text) ==
    LET r == ScanValue(text, SkipWs(text, 1))
    IN  IF r.ok /\ SkipWs(text, r.next) = Len(text) + 1
        THEN Return(r.val)
        ELSE Raise("JSONDecodeError")

-----------------------------------------------------------------------------
(* make_api_call under retry_on_quota_exceeded *)

\* What one call of model.generate_content does: it answers a response whose
\* .text is `text`, or raises an exception whose str() is `text`.
Ok(text) == [ok |-> TRUE, text |-> text]
Err(msg) == [ok |-> FALSE, text |-> msg]

\* needle in s (Python's substring test)
Contains(s, needle) ==
    \E i \in 1..Len(s) :
        /\ i + Len(needle) - 1 <= Len(s)
        /\ SubSeq(s, i, i + Len(needle) - 1) = needle

Text429 == <<"4", "2", "9">>

\* The body of make_api_call: one call of generate_content, an exception whose
\* message holds "429" re-raised as QuotaExceededError, any other as it is.
Attempt(o) ==
    IF o.ok THEN Return(PyStr(o.text))
    ELSE IF Contains(o.text, Text429) THEN Raise("QuotaExceededError")
    ELSE Raise("Exception")

\* retry=retry_if_exception_type(QuotaExceededError)
ShouldRetry(exc) == exc = "QuotaExceededError"

StopAfterAttempt == 3

\* stop=stop_after_attempt(3)
MutShouldStopOneLate(attempt_number) == attempt_number > StopAfterAttempt

ShouldStop(attempt_number) == attempt_number >= StopAfterAttempt

WaitMultiplier == 1
WaitMin == 4
WaitMax == 10

RECURSIVE Pow2(_)
Pow2(n) == IF n <= 0 THEN 1 ELSE 2 * Pow2(n - 1)

Max(a, b) == IF a >= b THEN a ELSE b
Min(a, b) == IF a <= b THEN a ELSE b

\* wait=wait_exponential(multiplier=1, min=4, max=10): the wait after attempt n
\* is multiplier * 2^(n-1), clamped to [min, max]
MutWaitWithoutMin(attempt_number) ==
    Min(WaitMultiplier * Pow2(attempt_number - 1), WaitMax)

WaitExponential(attempt_number) ==
    Max(Max(0, WaitMin), Min(WaitMultiplier * Pow2(attempt_number - 1), WaitMax))

\* The decorated make_api_call.  The retry loop calls the body; a return ends
\* it; an exception that is not retried is re-raised; a retried one ends the
\* loop with RetryError once the stop condition holds, and otherwise the loop
\* sleeps and calls the body again.
RECURSIVE RetryLoop(_, _, _)
RetryLoop(sc, attempt_number, slept) ==
    LET o == Attempt(sc[Min(attempt_number, Len(sc))])
    IN  IF o.kind = "return" \/ ~ShouldRetry(o.exc)
        THEN [out |-> o, calls |-> attempt_number, delays |-> slept]
        ELSE IF ShouldStop(attempt_number)
        THEN [out |-> Raise("RetryError"), calls |-> attempt_number, delays |-> slept]
        ELSE RetryLoop(sc, attempt_number + 1,
                       Append(slept, WaitExponential(attempt_number)))

make_api_call(sc) == RetryLoop(sc, 1, <<>>)

-----------------------------------------------------------------------------
(* extract_cv_data and summarize_jd *)

LowerLetters ==
    {"a", "b", "c", "d", "e", "f", "g", "h", "i", "j", "k", "l", "m",
     "n", "o", "p", "q", "r", "s", "t", "u", "v", "w", "x", "y", "z"}
UpperLetters ==
    {"A", "B", "C", "D", "E", "F", "G", "H", "I", "J", "K", "L", "M",
     "N", "O", "P", "Q", "R", "S", "T", "U", "V", "W", "X", "Y", "Z"}
Letters == LowerLetters \cup UpperLetters
LocalChars == Letters \cup Digits \cup {".", "_", "%", "+", "-"}
DomainChars == Letters \cup Digits \cup {".", "-"}

\* The index after the longest run of characters of `class` that starts at i.
RECURSIVE RunEnd(_, _, _)
RunEnd(s, i, class) ==
    IF i <= Len(s) /\ s[i] \in class THEN RunEnd(s, i + 1, class) ELSE i

\* A match of [a-zA-Z0-9._%+-]+@[a-zA-Z0-9.-]+\.[a-zA-Z]{2,} that starts at
\* i: the index after it, or 0.  The local part runs to the '@'; the domain
\* is greedy, so the dot before the top-level name is the last dot of the
\* run of domain characters that at least two letters follow.
EmailEndAt(s, i) ==
    LET at == RunEnd(s, i, LocalChars)
        domEnd == RunEnd(s, at + 1, DomainChars)
        dots == {d \in (at + 2)..(domEnd - 3) :
                    s[d] = "." /\ s[d + 1] \in Letters /\ s[d + 2] \in Letters}
    IN  IF at = i \/ at > Len(s) \/ s[at] # "@" \/ dots = {} THEN 0
        ELSE RunEnd(s, (CHOOSE d \in dots : \A e \in dots : e <= d) + 1, Letters)

\* re.search(...) on the text, then .group(0): the leftmost match, or None
EmailSearch(s) ==
    LET starts == {i \in 1..Len(s) : EmailEndAt(s, i) # 0}
    IN  IF starts = {} THEN PyNone
        ELSE LET i == CHOOSE k \in starts : \A m \in starts : k <= m
             IN  PyStr(SubSeq(s, i, EmailEndAt(s, i) - 1))

\* The element of a one-element set.  { e(x) : x \in {v} } computes v once and
\* names its value x, where a LET would compute v at each use.
TheOne(S) == CHOOSE x \in S : TRUE

\* A PDF as the reader sees it: whether PdfReader(file) accepts it, and what
\* page.extract_text() does for each page, in document order.
Document(readable, pages) == [readable |-> readable, pages |-> pages]

\* The loop over pdf_reader.pages: `extracted = page.extract_text() or ""`,
\* `text += extracted + "\n"`.  `visited` counts the calls of extract_text.
RECURSIVE ReadPages(_, _, _)
ReadPages(pages, i, text) ==
    IF i > Len(pages) THEN [out |-> Return(PyStr(text)), visited |-> Len(pages)]
    ELSE IF pages[i].kind = "raise" THEN [out |-> pages[i], visited |-> i]
    ELSE LET extracted == IF Truthy(pages[i].value) THEN pages[i].value.v ELSE <<>>
         IN  ReadPages(pages, i + 1, text \o extracted \o <<"\n">>)

\* PdfReader(file), then the loop over the pages
ExtractText(doc) ==
    IF ~doc.readable THEN [out |-> Raise("PdfReadError"), visited |-> 0]
    ELSE ReadPages(doc.pages, 1, <<>>)

RECURSIVE Repeat(_, _)
Repeat(e, n) == IF n <= 0 THEN <<>> ELSE <<e>> \o Repeat(e, n - 1)

KeyEmail == <<"e", "m", "a", "i", "l">>
KeyJobTitle == <<"j", "o", "b", "_", "t", "i", "t", "l", "e">>

\* d[key] = x, for a dict d
DictSet(d, key, x) ==
    PyDict([k \in DOMAIN d.v \cup {key} |-> IF k = key THEN x ELSE d.v[k]])

\* What an extraction gives: its outcome, the external calls it made in
\* order, and the text it read from the pages (None when reading raised).
Extraction(out, calls, text) == [out |-> out, calls |-> calls, text |-> text]

\* `response.text.strip() if response.text else ""`, clean_json_response and
\* json.loads on the provider's response
ParseResponse(resp) ==
    json_loads(clean_json_response(IF Truthy(resp) THEN Strip(resp.v) ELSE <<>>))

\* The outer try block of extract_cv_data.  env.key_valid is what
\* validate_api_key() answers, env.script what the provider answers to the
\* attempts of make_api_call.
\* The inner try block of extract_cv_data on the provider's response: the
\* parse, `except json.JSONDecodeError: return {}`, and the e-mail found in the
\* text filled in where the parsed record has none (.get on a value that is
\* not a dict raises).
MutCvDataBackfillsAlways(resp, candidate_email) ==
    TheOne({ IF parsed.kind = "raise" THEN Return(EmptyDict)
             ELSE IF ~IsDict(parsed.value) THEN Raise("AttributeError")
             ELSE IF Truthy(candidate_email)
                  THEN Return(DictSet(parsed.value, KeyEmail, candidate_email))
             ELSE parsed
           : parsed \in {ParseResponse(resp)} })

CvData(resp, candidate_email) ==
    TheOne({ IF parsed.kind = "raise" THEN Return(EmptyDict)
             ELSE IF ~IsDict(parsed.value) THEN Raise("AttributeError")
             ELSE IF ~Truthy(DictGet(parsed.value, KeyEmail, PyNone)) /\ Truthy(candidate_email)
                  THEN Return(DictSet(parsed.value, KeyEmail, candidate_email))
             ELSE parsed
           : parsed \in {ParseResponse(resp)} })

MutCvBodyIgnoresValidation(doc, env) ==
    LET read == ExtractText(doc)
        c1 == <<"PdfReader">> \o Repeat("extract_text", read.visited)
    IN  IF read.out.kind = "raise" THEN Extraction(read.out, c1, PyNone)
        ELSE LET text == read.out.value
                 candidate_email == EmailSearch(text.v)
                 c2 == c1 \o <<"validate_api_key">>
                 api == make_api_call(env.script)
                 c3 == c2 \o <<"get_available_model">> \o Repeat("generate_content", api.calls)
             IN  IF Strip(text.v) = <<>> THEN Extraction(Return(EmptyDict), c1, text)
                 ELSE IF api.out.kind = "raise" THEN Extraction(Return(EmptyDict), c3, text)
                 ELSE Extraction(CvData(api.out.value, candidate_email), c3, text)

CvBody(doc, env) ==
    LET read == ExtractText(doc)
        c1 == <<"PdfReader">> \o Repeat("extract_text", read.visited)
    IN  IF read.out.kind = "raise" THEN Extraction(read.out, c1, PyNone)
        ELSE LET text == read.out.value
                 candidate_email == EmailSearch(text.v)
                 c2 == c1 \o <<"validate_api_key">>
                 api == make_api_call(env.script)
                 c3 == c2 \o <<"get_available_model">> \o Repeat("generate_content", api.calls)
             IN  IF Strip(text.v) = <<>> THEN Extraction(Return(EmptyDict), c1, text)
                 ELSE IF ~env.key_valid THEN Extraction(Return(EmptyDict), c2, text)
                 ELSE IF api.out.kind = "raise" THEN Extraction(Return(EmptyDict), c3, text)
                 ELSE Extraction(CvData(api.out.value, candidate_email), c3, text)

\* The inner try block of summarize_jd on the provider's response: the parse,
\* `except json.JSONDecodeError: return {}`, and `return data` for whatever
\* the parse gave.
JdData(resp) ==
    TheOne({ IF parsed.kind = "raise" THEN Return(EmptyDict) ELSE parsed
           : parsed \in {ParseResponse(resp)} })

\* The outer try block of summarize_jd.
JdBody(doc, env) ==
    LET read == ExtractText(doc)
        c1 == <<"PdfReader">> \o Repeat("extract_text", read.visited)
    IN  IF read.out.kind = "raise" THEN Extraction(read.out, c1, PyNone)
        ELSE LET text == read.out.value
                 c2 == c1 \o <<"validate_api_key">>
                 api == make_api_call(env.script)
                 c3 == c2 \o <<"get_available_model">> \o Repeat("generate_content", api.calls)
             IN  IF Strip(text.v) = <<>> THEN Extraction(Return(EmptyDict), c1, text)
                 ELSE IF ~env.key_valid THEN Extraction(Return(EmptyDict), c2, text)
                 ELSE IF api.out.kind = "raise" THEN Extraction(Return(EmptyDict), c3, text)
                 ELSE Extraction(JdData(api.out.value), c3, text)

\* `except Exception as e: ... return {}` around the body
CatchAll(r) ==
    IF r.out.kind = "raise" THEN Extraction(Return(EmptyDict), r.calls, r.text) ELSE r

extract_cv_data(doc, env) == TheOne({CatchAll(r) : r \in {CvBody(doc, env)}})

summarize_jd(doc, env) == TheOne({CatchAll(r) : r \in {JdBody(doc, env)}})

-----------------------------------------------------------------------------
(* The upload view *)

\* What the view renders: the empty form, an error, or the results.
NoResponse == [kind |-> "none", text |-> ""]
RenderForm == [kind |-> "form", text |-> ""]
RenderError(msg) == [kind |-> "error", text |-> msg]
RenderSuccess == [kind |-> "success", text |-> "Files processed successfully"]

\* How often a run called extract_cv_data and calculate_match_score, saved a
\* CV file, saved a candidate row and sent an interview e-mail.
NoEffects == [extracted |-> 0, scored |-> 0, files |-> 0, rows |-> 0, emails |-> 0]

Bump(e, fields) == [f \in DOMAIN e |-> IF f \in fields THEN e[f] + 1 ELSE e[f]]

\* `not jd_result or 'summary' not in jd_result or not jd_result.get('summary')`
\* on whatever summarize_jd returned: "failed" when the condition holds,
\* "usable" when it does not, "raised" when evaluating it raises (`in` on a
\* number or a boolean, .get on a string or a list).
MutJobCheckWithoutEmptyTest(r) ==
    IF ~Truthy(r) THEN "failed"
    ELSE IF r.t = "dict" THEN (IF ~HasKey(r, KeySummary) THEN "failed" ELSE "usable")
    ELSE "raised"

JobCheck(r) ==
    IF ~Truthy(r) THEN "failed"
    ELSE IF r.t = "dict"
         THEN IF ~HasKey(r, KeySummary) \/ ~Truthy(r.v[KeySummary]) THEN "failed" ELSE "usable"
    ELSE IF r.t = "str" THEN (IF ~Contains(r.v, KeySummary) THEN "failed" ELSE "raised")
    ELSE IF r.t = "list"
         THEN IF \A i \in 1..Len(r.v) : r.v[i] # PyStr(KeySummary) THEN "failed" ELSE "raised"
    ELSE "raised"

UnknownJobTitle ==
    PyStr(<<"U", "n", "k", "n", "o", "w", "n", " ", "J", "o", "b", " ", "T", "i", "t", "l", "e">>)

\* The fields of the model Candidate, and the two names every model accepts.
CandidateFields ==
    {"name", "email", "cv_text", "education", "skills", "experience", "certifications"}

\* Candidate(**kwargs): a keyword that names no field raises TypeError
NewCandidate(kwargs) ==
    IF DOMAIN kwargs \subseteq CandidateFields \cup {"id", "pk"}
    THEN Return(kwargs)
    ELSE Raise("TypeError")

\* `match_score >= 70`, in hundredths
ShortlistThreshold == 7000

\* One pass of the loop over cv_files after extract_cv_data gave `data`, to
\* the append or to the `continue` of an unusable record or of an exception.
\* save_ok and db_ok say whether fs.save and candidate.save() go through.
CvRecordPass(data, summary, title, save_ok, db_ok) ==
    LET usable == /\ Truthy(data)
                  /\ Truthy(DictGet(data, KeyName, PyNone))
                  /\ Truthy(DictGet(data, KeyEmail, PyNone))
        score == calculate_match_score(data, summary).value
        candidate == NewCandidate(
            [name |-> data.v[KeyName], email |-> data.v[KeyEmail], cv_file |-> "cvs",
             job_title |-> title, match_score |-> score,
             is_shortlisted |-> score.v >= ShortlistThreshold])
        skipped(did) == [cv_data |-> data, match_score |-> IF "scored" \in did THEN score ELSE PyNone,
                         did |-> did, result |-> <<>>]
    IN  IF ~usable THEN skipped({"extracted"})
        ELSE IF ~save_ok THEN skipped({"extracted", "scored"})
        ELSE IF candidate.kind = "raise" THEN skipped({"extracted", "scored", "files"})
        ELSE IF ~db_ok THEN skipped({"extracted", "scored", "files"})
        ELSE [cv_data |-> data, match_score |-> score,
              did |-> {"extracted", "scored", "files", "rows"}
                        \cup (IF candidate.value.is_shortlisted THEN {"emails"} ELSE {}),
              result |-> << [name |-> candidate.value.name,
                             email |-> candidate.value.email,
                             match_score |-> score,
                             is_shortlisted |-> candidate.value.is_shortlisted] >>]

\* One pass of the loop over cv_files, from the extraction on.
CvPass(doc, env, summary, title, save_ok, db_ok) ==
    TheOne({ CvRecordPass(data, summary, title, save_ok, db_ok)
           : data \in {extract_cv_data(doc, env).out.value} })

-----------------------------------------------------------------------------
(* The inputs of the scorer's specification *)

MaxCvWords == 2
MaxJdWords == 3

\* The pieces summaries are joined from: words in both cases, and a piece of
\* whitespace, so that runs of whitespace, leading and trailing, occur.
Vocabulary == {<<"a">>, <<"b">>, <<"A">>, <<"a", "b">>, <<"\t">>}

RECURSIVE Join(_)
Join(ws) ==
    IF ws = <<>> THEN <<>>
    ELSE IF Len(ws) = 1 THEN ws[1]
    ELSE ws[1] \o <<" ">> \o Join(Tail(ws))

SummariesUpTo(n) ==
    UNION {{Join(ws) : ws \in [1..k -> Vocabulary]} : k \in 0..n}

\* Values a record can carry as its summary that are not strings.
NonStrings == {PyNone, PyNum(5), PyList(<<>>), EmptyDict}

RecordWith(x) == PyDict([k \in {KeySummary} |-> x])

\* Inputs that are not records with a string summary: not a map, a map
\* without the field, a map whose summary is not a string.
IllFormed ==
    {PyNone, PyStr(<<"a">>), PyList(<<>>), PyNum(5)}
    \cup {EmptyDict, PyDict([k \in {KeyName} |-> PyStr(<<"a">>)])}
    \cup {RecordWith(x) : x \in NonStrings}

CvInputs == {RecordWith(PyStr(s)) : s \in SummariesUpTo(MaxCvWords)} \cup IllFormed
JdInputs == {RecordWith(PyStr(s)) : s \in SummariesUpTo(MaxJdWords)} \cup IllFormed

\* The variables of a part of the program when a specification is about
\* another part.
IdleScore ==
    /\ cv_data = PyNone
    /\ jd_summary = PyNone
    /\ score_out = NotCalled
    /\ swapped_out = NotCalled

IdleRetry ==
    /\ script = <<>>
    /\ api_out = NotCalled
    /\ generate_calls = 0
    /\ delays = <<>>

IdleSan ==
    /\ san_object = EmptyDict
    /\ san_form = "none"
    /\ san_text = <<>>
    /\ san_once = NotCalled
    /\ san_twice = NotCalled
    /\ san_parsed = NotCalled

IdleExt ==
    /\ ext_fn = "none"
    /\ ext_doc = Document(FALSE, <<>>)
    /\ ext_env = [key_valid |-> FALSE, script |-> <<>>]
    /\ ext_out = NotCalled
    /\ ext_calls = <<>>
    /\ ext_text = PyNone

IdleRun ==
    /\ pc = "idle"
    /\ cv_files = 0
    /\ cv_index = 0
    /\ jd_result = PyNone
    /\ job_title = PyNone
    /\ match_score = PyNone
    /\ candidates = <<>>
    /\ effects = NoEffects
    /\ response = NoResponse

InitScore ==
    /\ cv_data \in CvInputs
    /\ jd_summary \in JdInputs
    /\ score_out = NotCalled
    /\ swapped_out = NotCalled
    /\ IdleRetry
    /\ IdleSan
    /\ IdleExt
    /\ IdleRun

CallScore ==
    /\ score_out.kind = "not_called"
    /\ score_out' = calculate_match_score(cv_data, jd_summary)
    /\ UNCHANGED <<cv_data, jd_summary, swapped_out>>
    /\ UNCHANGED <<retryVars, sanVars, extVars, runVars>>

CallSwapped ==
    /\ swapped_out.kind = "not_called"
    /\ swapped_out' = calculate_match_score(jd_summary, cv_data)
    /\ UNCHANGED <<cv_data, jd_summary, score_out>>
    /\ UNCHANGED <<retryVars, sanVars, extVars, runVars>>

NextScore == CallScore \/ CallSwapped

SpecScore == InitScore /\ [][NextScore]_vars

-----------------------------------------------------------------------------
(* Claims about calculate_match_score, checked under SpecScore *)

\* A record that carries a string summary.
WellFormed(x) == IsDict(x) /\ HasKey(x, KeySummary) /\ x.v[KeySummary].t = "str"

\* s[i..j] is a maximal run of non-whitespace characters of s.
IsWordAt(s, i, j) ==
    /\ 1 <= i /\ i <= j /\ j <= Len(s)
    /\ \A k \in i..j : s[k] \notin Whitespace
    /\ i = 1 \/ s[i - 1] \in Whitespace
    /\ j = Len(s) \/ s[j + 1] \in Whitespace

\* The lower-cased, whitespace-split word set of a record's summary.
WordSet(x) ==
    LET s == Lower(x.v[KeySummary].v)
    IN  {SubSeq(s, p[1], p[2]) :
            p \in {q \in (1..Len(s)) \X (1..Len(s)) : IsWordAt(s, q[1], q[2])}}

Abs(n) == IF n < 0 THEN -n ELSE n

ScoreCalled == score_out.kind # "not_called"
BothCalled == ScoreCalled /\ swapped_out.kind # "not_called"

\* C3, as stated: on two records with string summaries the result is exactly
\* |cvWords \cap jobWords| / |jobWords| * 100 (0.0 when the job has no word),
\* lies in [0, 100], is 100 for equal word sets and 0 for disjoint ones.
C3_AsStated ==
    (ScoreCalled /\ WellFormed(cv_data) /\ WellFormed(jd_summary)) =>
        LET cw == WordSet(cv_data)
            jw == WordSet(jd_summary)
            r == score_out.value.v
        IN  /\ score_out.kind = "return"
            /\ jw = {} => r = 0
            /\ jw # {} => r * Cardinality(jw) = 10000 * Cardinality(cw \cap jw)
            /\ 0 <= r /\ r <= 10000
            /\ cw = jw => r = 10000
            /\ cw \cap jw = {} => r = 0

\* C3, amended: the result is that ratio rounded to 2 decimal places (the
\* hundredth nearest to it), 0.0 when the job has no word; it lies in
\* [0, 100], is 100 for equal non-empty word sets and 0 for disjoint ones.
C3_ScoreIsRoundedRatio ==
    (ScoreCalled /\ WellFormed(cv_data) /\ WellFormed(jd_summary)) =>
        LET cw == WordSet(cv_data)
            jw == WordSet(jd_summary)
            r == score_out.value.v
        IN  /\ score_out.kind = "return"
            /\ jw = {} => r = 0
            /\ jw # {} =>
                  2 * Abs(r * Cardinality(jw) - 10000 * Cardinality(cw \cap jw))
                      <= Cardinality(jw)
            /\ 0 <= r /\ r <= 10000
            /\ (cw = jw /\ jw # {}) => r = 10000
            /\ cw \cap jw = {} => r = 0

\* C3's case: a scored pair whose ratio is not a whole number of hundredths.
C3_Witness ==
    /\ ScoreCalled /\ WellFormed(cv_data) /\ WellFormed(jd_summary)
    /\ Cardinality(WordSet(jd_summary)) = 3
    /\ Cardinality(WordSet(cv_data) \cap WordSet(jd_summary)) = 2
    /\ score_out.value.v = 6667

\* C4: calculate_match_score never raises, and returns 0.0 whenever either
\* input is not a map, lacks the summary field or has a non-string summary.
C4_IllFormedScoresZero ==
    ScoreCalled =>
        /\ score_out.kind = "return"
        /\ (~WellFormed(cv_data) \/ ~WellFormed(jd_summary)) => score_out.value = PyNum(0)

\* C4's case: scored, both inputs are maps with the field, one summary is not
\* a string (the call of .lower() on it is what raises inside).
C4_Witness ==
    /\ ScoreCalled
    /\ IsDict(cv_data) /\ HasKey(cv_data, KeySummary)
    /\ WellFormed(jd_summary)
    /\ cv_data.v[KeySummary].t = "none"
    /\ score_out = Return(PyNum(0))

\* C5, as stated: whenever the two word sets differ in size, swapping the
\* arguments changes the result.
C5_AsStated ==
    (BothCalled /\ WellFormed(cv_data) /\ WellFormed(jd_summary)
        /\ Cardinality(WordSet(cv_data)) # Cardinality(WordSet(jd_summary)))
    => score_out.value.v # swapped_out.value.v

\* C5, amended: whenever the two word sets differ in size, share at least one
\* word and hold at most 100 words each (two such ratios are more than a
\* hundredth apart, so rounding cannot merge them), swapping the arguments
\* changes the result.
C5_SwapChangesScore ==
    (BothCalled /\ WellFormed(cv_data) /\ WellFormed(jd_summary)
        /\ Cardinality(WordSet(cv_data)) # Cardinality(WordSet(jd_summary))
        /\ WordSet(cv_data) \cap WordSet(jd_summary) # {}
        /\ Cardinality(WordSet(cv_data)) <= 100
        /\ Cardinality(WordSet(jd_summary)) <= 100)
    => score_out.value.v # swapped_out.value.v

\* C5's case: both orders scored, 2 words against 3 with 2 shared.
C5_Witness ==
    /\ BothCalled /\ WellFormed(cv_data) /\ WellFormed(jd_summary)
    /\ Cardinality(WordSet(cv_data)) = 2
    /\ Cardinality(WordSet(jd_summary)) = 3
    /\ score_out.value.v = 6667
    /\ swapped_out.value.v = 10000

-----------------------------------------------------------------------------
(* The specification of make_api_call: every script of provider answers *)

MaxMessages == 5

\* str(e) of the exceptions the provider raises: with 429 alone, inside a
\* longer message, and without it.
ErrorMessages ==
    <<  <<"4", "2", "9">>,
        <<"e", " ", "4", "2", "9", " ", "q">>,
        <<"5", "0", "0">>,
        <<"4", "2">>,
        <<"4", "2", "0", "9">>,
        <<>>,
        <<"9", "2", "4">>  >>

TextOk == <<"{", "}">>

ProviderAnswers ==
    {Ok(TextOk)} \cup {Err(ErrorMessages[i]) : i \in 1..Min(MaxMessages, Len(ErrorMessages))}

\* One answer more than the attempts allowed, so that an attempt too many
\* would find an answer.
Scripts == [1..(StopAfterAttempt + 1) -> ProviderAnswers]

InitRetry ==
    /\ script \in Scripts
    /\ api_out = NotCalled
    /\ generate_calls = 0
    /\ delays = <<>>
    /\ IdleScore
    /\ IdleSan
    /\ IdleExt
    /\ IdleRun

CallApi ==
    /\ api_out.kind = "not_called"
    /\ LET r == make_api_call(script)
       IN  /\ api_out' = r.out
           /\ generate_calls' = r.calls
           /\ delays' = r.delays
    /\ UNCHANGED script
    /\ UNCHANGED <<scoreVars, sanVars, extVars, runVars>>

NextRetry == CallApi

SpecRetry == InitRetry /\ [][NextRetry]_vars

\* The provider's answer to attempt i was an error whose message holds 429.
Answered429(i) ==
    /\ ~script[i].ok
    /\ \E k \in 1..Len(script[i].text) :
          /\ k + 2 <= Len(script[i].text)
          /\ script[i].text[k] = "4"
          /\ script[i].text[k + 1] = "2"
          /\ script[i].text[k + 2] = "9"

ApiCalled == api_out.kind # "not_called"

\* C1: make_api_call calls generate_content at most 3 times; attempt n + 1 is
\* made exactly when attempt n failed with a 429 message and n < 3; any other
\* error propagates after its single attempt; 429, 429, success returns the
\* response after 2 retries, and 429 three times fails after 3 attempts.
C1_RetryOnlyOnQuota ==
    ApiCalled =>
        LET n == generate_calls
        IN  /\ 1 <= n /\ n <= 3
            /\ \A i \in 1..(n - 1) : Answered429(i)
            /\ n < 3 => ~Answered429(n)
            /\ script[n].ok => api_out = Return(PyStr(script[n].text))
            /\ ~script[n].ok => api_out.kind = "raise"
            /\ (~script[n].ok /\ ~Answered429(n)) => api_out.exc = "Exception"
            /\ (Answered429(1) /\ Answered429(2) /\ script[3].ok) =>
                  (n = 3 /\ api_out.kind = "return")
            /\ (Answered429(1) /\ Answered429(2) /\ Answered429(3)) =>
                  (n = 3 /\ api_out.kind = "raise")

\* C1's case: 429 twice, then a response: returned on the third attempt.
C1_Witness ==
    /\ ApiCalled
    /\ Answered429(1) /\ Answered429(2) /\ script[3].ok
    /\ generate_calls = 3
    /\ api_out = Return(PyStr(TextOk))

\* The attempt numbers the wait policy is asked about, beyond the attempts
\* the stop condition allows.
MaxAttemptNumber == 6

\* C15: the waits between consecutive attempts of make_api_call, one after
\* each attempt but the last, are each at least 4 and at most 10 and never
\* decrease from one retry to the next; and so are the waits the policy
\* gives after any attempt number.
C15_WaitsClampedAndNondecreasing ==
    /\ ApiCalled => Len(delays) = generate_calls - 1
    /\ \A i \in 1..Len(delays) : 4 <= delays[i] /\ delays[i] <= 10
    /\ \A i \in 1..(Len(delays) - 1) : delays[i] <= delays[i + 1]
    /\ \A n \in 1..MaxAttemptNumber :
          /\ 4 <= WaitExponential(n) /\ WaitExponential(n) <= 10
          /\ WaitExponential(n) <= WaitExponential(n + 1)

\* C15's case: a call that waited twice, after its first and after its
\* second attempt, and failed on the third.
C15_Witness ==
    /\ ApiCalled
    /\ Len(delays) = 2
    /\ generate_calls = 3
    /\ api_out.kind = "raise"

-----------------------------------------------------------------------------
(* The specification of the sanitizer: JSON objects written as strict JSON *)
(* and as single-quoted JSON in a json fence                               *)

MaxStrLen == 2

\* What keys and string values are made of: a letter, the two ASCII quotes,
\* a backslash and two typographic quotes.
StringChars == {"a", SQ, DQ, BS, "RSQ", "LDQ"}

Strings == UNION {[1..n -> StringChars] : n \in 0..MaxStrLen}

MaxKeyLen == 1

Keys == {str \in Strings : Len(str) <= MaxKeyLen}

KeyB == <<"b">>

\* One pair of any key and value, alone or followed by the pair "b": "a".
Objects ==
    {PyDict([k \in {key} |-> PyStr(val)]) : key \in Keys, val \in Strings}
    \cup {PyDict([k \in {key, KeyB} |-> IF k = key THEN PyStr(val) ELSE PyStr(<<"a">>)]) :
            key \in Keys, val \in Strings}

\* The characters of a string between its quotes in JSON text: '"' and '\'
\* are escaped, every other character stands for itself.
RECURSIVE JsonEscape(_)
JsonEscape(str) ==
    IF str = <<>> THEN <<>>
    ELSE (IF Head(str) \in {DQ, BS} THEN <<BS, Head(str)>> ELSE <<Head(str)>>)
             \o JsonEscape(Tail(str))

Quoted(q, str) == <<q>> \o JsonEscape(str) \o <<q>>

\* The object's JSON text with q as the quote of keys and string values: the
\* key other than "b" first.
ObjectText(obj, q) ==
    LET first == CHOOSE k \in DOMAIN obj.v : k # KeyB
        pair(k) == Quoted(q, k) \o <<":", " ">> \o Quoted(q, obj.v[k].v)
    IN  <<"{">> \o pair(first)
            \o (IF KeyB \in DOMAIN obj.v THEN <<",", " ">> \o pair(KeyB) ELSE <<>>)
            \o <<"}">>

TextOf(obj, form) ==
    IF form = "strict" THEN ObjectText(obj, DQ)
    ELSE FenceJson \o <<"\n">> \o ObjectText(obj, SQ) \o <<"\n">> \o Fence

InitClean ==
    /\ san_object \in Objects
    /\ san_form \in {"strict", "single_fenced"}
    /\ san_text = TextOf(san_object, san_form)
    /\ san_once = NotCalled
    /\ san_twice = NotCalled
    /\ san_parsed = NotCalled
    /\ IdleScore
    /\ IdleRetry
    /\ IdleExt
    /\ IdleRun

CleanOnce ==
    /\ san_once.kind = "not_called"
    /\ san_once' = Return(PyStr(clean_json_response(san_text)))
    /\ UNCHANGED <<san_object, san_form, san_text, san_twice, san_parsed>>
    /\ UNCHANGED <<scoreVars, retryVars, extVars, runVars>>

CleanTwice ==
    /\ san_once.kind = "return"
    /\ san_twice.kind = "not_called"
    /\ san_twice' = Return(PyStr(clean_json_response(san_once.value.v)))
    /\ UNCHANGED <<san_object, san_form, san_text, san_once, san_parsed>>
    /\ UNCHANGED <<scoreVars, retryVars, extVars, runVars>>

ParseCleaned ==
    /\ san_once.kind = "return"
    /\ san_parsed.kind = "not_called"
    /\ san_parsed' = json_loads(san_once.value.v)
    /\ UNCHANGED <<san_object, san_form, san_text, san_once, san_twice>>
    /\ UNCHANGED <<scoreVars, retryVars, extVars, runVars>>

NextClean == CleanOnce \/ CleanTwice \/ ParseCleaned

SpecClean == InitClean /\ [][NextClean]_vars

\* C6: on strict JSON text, apostrophes in its strings included, cleaning
\* twice gives what cleaning once gives.
C6_IdempotentOnStrictJson ==
    (san_form = "strict" /\ san_twice.kind = "return") => san_twice = san_once

\* C7, as stated: any JSON object written with single quotes in a json fence
\* is cleaned to text that parses to the object's key/value pairs.
C7_AsStated ==
    (san_form = "single_fenced" /\ san_parsed.kind # "not_called")
    => san_parsed = Return(san_object)

\* No key or string value of the object holds a quote character: ASCII single
\* or double, or typographic.
QuoteChars == {SQ, DQ, "RSQ", "LSQ", "LDQ", "RDQ"}

QuoteFree(obj) ==
    \A k \in DOMAIN obj.v :
        /\ \A i \in 1..Len(k) : k[i] \notin QuoteChars
        /\ \A i \in 1..Len(obj.v[k].v) : obj.v[k].v[i] \notin QuoteChars

\* C7, amended: a JSON object whose keys and string values hold no quote
\* character (ASCII single or double, or typographic), written with single
\* quotes in a json fence, is cleaned to text that parses to its pairs.
C7_QuoteFreeRoundTrip ==
    (san_form = "single_fenced" /\ san_parsed.kind # "not_called" /\ QuoteFree(san_object))
    => san_parsed = Return(san_object)

\* C7's case: two pairs, a backslash in the first value, cleaned and parsed.
C7_Witness ==
    /\ san_form = "single_fenced"
    /\ QuoteFree(san_object)
    /\ DOMAIN san_object.v = {<<"a">>, KeyB}
    /\ san_object.v[<<"a">>] = PyStr(<<"a", BS>>)
    /\ san_parsed = Return(san_object)

-----------------------------------------------------------------------------
(* The specification of the extraction entry points: every document and   *)
(* every answer of the key check and of the provider                       *)

MaxPages == 2

TextMail == <<"c", "@", "d", ".", "e", "e">>

\* What page.extract_text() does: it raises, returns None, returns blank
\* text, text without an e-mail address, or text with one.
PageOutcomes ==
    {Raise("PdfReadError"), Return(PyNone), Return(PyStr(<<" ">>)),
     Return(PyStr(<<"a">>)), Return(PyStr(<<"x", " ">> \o TextMail))}

Documents ==
    {Document(FALSE, <<>>)}
    \cup UNION {{Document(TRUE, ps) : ps \in [1..n -> PageOutcomes]} : n \in 0..MaxPages}

JsonPair(k, val) == Quoted(DQ, k) \o <<":", " ">> \o val
JsonString(str) == Quoted(DQ, str)

RECURSIVE JoinWith(_, _)
JoinWith(parts, sep) ==
    IF parts = <<>> THEN <<>>
    ELSE IF Len(parts) = 1 THEN parts[1]
    ELSE parts[1] \o sep \o JoinWith(Tail(parts), sep)

JsonObject(pairs) == <<"{">> \o JoinWith(pairs, <<",", " ">>) \o <<"}">>

\* Texts the model answers with.
RespCv ==
    JsonObject(<<JsonPair(KeyName, JsonString(<<"n">>)),
                 JsonPair(KeyEmail, JsonString(<<"m", "@", "d", ".", "e", "e">>)),
                 JsonPair(KeySummary, JsonString(<<"a", " ", "b">>))>>)
RespCvNoEmail ==
    JsonObject(<<JsonPair(KeyName, JsonString(<<"n">>)),
                 JsonPair(KeySummary, JsonString(<<"a">>))>>)
RespCvNullEmail ==
    JsonObject(<<JsonPair(KeyName, JsonString(<<"n">>)),
                 JsonPair(KeyEmail, LitNull),
                 JsonPair(KeySummary, JsonString(<<"b">>))>>)
RespCvEmptyEmail ==
    JsonObject(<<JsonPair(KeyName, JsonString(<<"n">>)),
                 JsonPair(KeyEmail, JsonString(<<>>)),
                 JsonPair(KeySummary, JsonString(<<"b">>))>>)
RespCvNoName ==
    JsonObject(<<JsonPair(KeyEmail, JsonString(<<"m", "@", "d", ".", "e", "e">>)),
                 JsonPair(KeySummary, JsonString(<<"a">>))>>)
RespApostrophe ==
    JsonObject(<<JsonPair(KeyName, JsonString(<<"o", SQ, "b">>)),
                 JsonPair(KeyEmail, JsonString(<<"m", "@", "d", ".", "e", "e">>)),
                 JsonPair(KeySummary, JsonString(<<"a">>))>>)
RespJd ==
    JsonObject(<<JsonPair(KeyJobTitle, JsonString(<<"t">>)),
                 JsonPair(KeySummary, JsonString(<<"a">>))>>)
RespJdFenced ==
    FenceJson \o <<"\n", "{">>
        \o Quoted(SQ, KeySummary) \o <<":", " ">> \o Quoted(SQ, <<"A", " ", "c">>)
        \o <<",", "}", "\n">> \o Fence
RespJdEmptySummary ==
    JsonObject(<<JsonPair(KeyJobTitle, JsonString(<<"t">>)),
                 JsonPair(KeySummary, JsonString(<<>>))>>)
RespJdNoSummary == JsonObject(<<JsonPair(KeyJobTitle, JsonString(<<"t">>))>>)
RespString == JsonString(KeySummary)
RespList == <<"[">> \o JsonString(KeySummary) \o <<"]">>
RespNumber == <<"5">>
RespNull == LitNull
RespGarbage == <<"o", "k">>
RespEmpty == <<>>

Responses ==
    {RespCv, RespCvNoEmail, RespCvNullEmail, RespCvEmptyEmail, RespCvNoName, RespApostrophe, RespJd,
     RespJdFenced, RespJdEmptySummary, RespJdNoSummary, RespString, RespList,
     RespNumber, RespNull, RespGarbage, RespEmpty}

Err429 == Err(<<"4", "2", "9", " ", "q">>)
Err500 == Err(<<"5", "0", "0">>)

\* What the provider answers to the attempts of one call; the last answer
\* repeats if more attempts are made.
ProviderScripts ==
    {<<Ok(r)>> : r \in Responses}
    \cup {<<Err429, Err429, Ok(RespCv)>>, <<Err429, Ok(RespJd)>>,
          <<Err429>>, <<Err500>>, <<Err429, Err500>>}

Environments == [key_valid : BOOLEAN, script : ProviderScripts]

InitExtract ==
    /\ ext_fn \in {"cv", "jd"}
    /\ ext_doc \in Documents
    /\ ext_env \in Environments
    /\ ext_out = NotCalled
    /\ ext_calls = <<>>
    /\ ext_text = PyNone
    /\ IdleScore
    /\ IdleRetry
    /\ IdleSan
    /\ IdleRun

CallExtractCv ==
    /\ ext_fn = "cv"
    /\ ext_out.kind = "not_called"
    /\ \E r \in {extract_cv_data(ext_doc, ext_env)} :
           /\ ext_out' = r.out
           /\ ext_calls' = r.calls
           /\ ext_text' = r.text
    /\ UNCHANGED <<ext_fn, ext_doc, ext_env>>
    /\ UNCHANGED <<scoreVars, retryVars, sanVars, runVars>>

CallSummarizeJd ==
    /\ ext_fn = "jd"
    /\ ext_out.kind = "not_called"
    /\ \E r \in {summarize_jd(ext_doc, ext_env)} :
           /\ ext_out' = r.out
           /\ ext_calls' = r.calls
           /\ ext_text' = r.text
    /\ UNCHANGED <<ext_fn, ext_doc, ext_env>>
    /\ UNCHANGED <<scoreVars, retryVars, sanVars, runVars>>

NextExtract == CallExtractCv \/ CallSummarizeJd

SpecExtract == InitExtract /\ [][NextExtract]_vars

ExtCalled == ext_out.kind # "not_called"

CountOf(seq, e) == Cardinality({i \in 1..Len(seq) : seq[i] = e})

\* Page i of the document yields text that is not blank.
PageHasText(doc, i) ==
    /\ doc.pages[i].kind = "return"
    /\ doc.pages[i].value.t = "str"
    /\ \E k \in 1..Len(doc.pages[i].value.v) : doc.pages[i].value.v[k] \notin Whitespace

\* The provider's last answer in the call was an error: the first answer
\* that is not a 429 error, or the third 429 error.
ProviderFailed(sc) ==
    LET at(i) == sc[IF i <= Len(sc) THEN i ELSE Len(sc)]
        quota(i) == ~at(i).ok /\ at(i).text = Err429.text
    IN  \/ ~at(1).ok /\ ~quota(1)
        \/ quota(1) /\ ~at(2).ok /\ ~quota(2)
        \/ quota(1) /\ quota(2) /\ ~at(3).ok

\* C8: neither entry point raises; what it returns is a map; and an
\* unreadable PDF, a document without text, an invalid key and a failed
\* provider call give the empty map.
C8_ExtractionGivesMapOrEmpty ==
    ExtCalled =>
        /\ ext_out.kind = "return"
        /\ IsDict(ext_out.value)
        /\ (\/ ~ext_doc.readable
            \/ \A i \in 1..Len(ext_doc.pages) : ~PageHasText(ext_doc, i)
            \/ ~ext_env.key_valid
            \/ ProviderFailed(ext_env.script)) => ext_out.value = EmptyDict

\* C9: every page of a readable document is visited, in order, whatever the
\* other pages do, and a document with a page that yields text is not
\* abandoned at the reading: its text is read and the extraction goes on to
\* the key check.
C9_FailedPageDoesNotAbortDocument ==
    (ExtCalled /\ ext_doc.readable) =>
        /\ CountOf(ext_calls, "extract_text") = Len(ext_doc.pages)
        /\ (\E i \in 1..Len(ext_doc.pages) : PageHasText(ext_doc, i)) =>
              /\ ext_text.t = "str"
              /\ CountOf(ext_calls, "validate_api_key") = 1

-----------------------------------------------------------------------------
(* The specification of the upload view: requests, one after another *)

MaxCvFiles == 2

\* The documents of a run: unreadable, one page without an e-mail address,
\* one page with one.
RunDocuments ==
    {Document(FALSE, <<>>),
     Document(TRUE, <<Return(PyStr(<<"a">>))>>),
     Document(TRUE, <<Return(PyStr(<<"x", " ">> \o TextMail))>>)}

RunScripts ==
    {<<Ok(r)>> : r \in {RespCv, RespCvNoEmail, RespCvNoName, RespJd, RespJdFenced,
                        RespJdEmptySummary, RespJdNoSummary, RespString, RespList,
                        RespNumber, RespGarbage}}
    \cup {<<Err429>>, <<Err429, Ok(RespJd)>>}

RunEnvironments == [key_valid : BOOLEAN, script : RunScripts]

Init ==
    /\ IdleRun
    /\ IdleScore
    /\ IdleRetry
    /\ IdleSan
    /\ IdleExt

\* A request arrives: a GET renders the form; a POST without a JD file or
\* without CV files renders an error; any other POST starts a run.
Request(method, has_jd, n) ==
    /\ pc \in {"idle", "done"}
    /\ cv_files' = n
    /\ cv_index' = 0
    /\ jd_result' = PyNone
    /\ job_title' = PyNone
    /\ jd_summary' = PyNone
    /\ cv_data' = PyNone
    /\ match_score' = PyNone
    /\ candidates' = <<>>
    /\ effects' = NoEffects
    /\ IF method = "GET" THEN pc' = "done" /\ response' = RenderForm
       ELSE IF ~has_jd
       THEN pc' = "done" /\ response' = RenderError("Please upload a job description file")
       ELSE IF n = 0
       THEN pc' = "done" /\ response' = RenderError("Please upload at least one CV file")
       ELSE pc' = "job" /\ response' = NoResponse
    /\ UNCHANGED <<score_out, swapped_out>>
    /\ UNCHANGED <<retryVars, sanVars, extVars>>

\* summarize_jd on the JD file, the test of its result, job_title and
\* jd_summary.
ProcessJd(doc, env) ==
    /\ pc = "job"
    /\ \E r \in {summarize_jd(doc, env).out.value} :
         LET check == JobCheck(r)
         IN
           /\ jd_result' = r
           /\ IF check = "usable"
              THEN /\ job_title' = DictGet(r, KeyJobTitle, UnknownJobTitle)
                   /\ jd_summary' = DictGet(r, KeySummary, PyStr(<<>>))
                   /\ pc' = "cvs"
                   /\ response' = NoResponse
              ELSE /\ job_title' = PyNone
                   /\ jd_summary' = PyNone
                   /\ pc' = "done"
                   /\ response' = IF check = "failed"
                                  THEN RenderError("Failed to process job description")
                                  ELSE RenderError("An unexpected error occurred")
    /\ UNCHANGED <<cv_files, cv_index, cv_data, match_score, candidates, effects>>
    /\ UNCHANGED <<score_out, swapped_out>>
    /\ UNCHANGED <<retryVars, sanVars, extVars>>

\* One pass of the loop over cv_files.
ProcessCv(doc, env, save_ok, db_ok) ==
    /\ pc = "cvs"
    /\ cv_index < cv_files
    /\ \E p \in {CvPass(doc, env, jd_summary, job_title, save_ok, db_ok)} :
           /\ cv_data' = p.cv_data
           /\ match_score' = p.match_score
           /\ effects' = Bump(effects, p.did)
           /\ candidates' = candidates \o p.result
    /\ cv_index' = cv_index + 1
    /\ UNCHANGED <<pc, cv_files, jd_result, job_title, jd_summary, response>>
    /\ UNCHANGED <<score_out, swapped_out>>
    /\ UNCHANGED <<retryVars, sanVars, extVars>>

\* After the loop: an error when candidates is empty, the results otherwise.
Finish ==
    /\ pc = "cvs"
    /\ cv_index = cv_files
    /\ pc' = "done"
    /\ response' = IF candidates = <<>> THEN RenderError("No valid CVs processed")
                   ELSE RenderSuccess
    /\ UNCHANGED <<cv_files, cv_index, jd_result, job_title, jd_summary, cv_data,
                   match_score, candidates, effects>>
    /\ UNCHANGED <<score_out, swapped_out>>
    /\ UNCHANGED <<retryVars, sanVars, extVars>>

Next ==
    \/ \E method \in {"GET", "POST"}, has_jd \in BOOLEAN, n \in 0..MaxCvFiles :
          Request(method, has_jd, n)
    \/ \E doc \in RunDocuments, env \in RunEnvironments : ProcessJd(doc, env)
    \/ \E doc \in RunDocuments, env \in RunEnvironments, save_ok \in BOOLEAN, db_ok \in BOOLEAN :
          ProcessCv(doc, env, save_ok, db_ok)
    \/ Finish

Spec == Init /\ [][Next]_vars

\* The pass of the loop just made computed a score.
Scored == pc \in {"cvs", "done"} /\ match_score.t = "num"

\* C2: the score a run computes for a candidate is the scorer's result for the
\* candidate's summary against the job's summary, the share of the job's
\* words the candidate has, in percent; it is above 0 when they share a word.
C2_RunScoreIsScorerResult ==
    (Scored /\ WellFormed(cv_data) /\ WellFormed(jd_result)) =>
        LET cw == WordSet(cv_data)
            jw == WordSet(jd_result)
        IN  /\ jw # {} =>
                  2 * Abs(match_score.v * Cardinality(jw) - 10000 * Cardinality(cw \cap jw))
                      <= Cardinality(jw)
            /\ cw \cap jw # {} => match_score.v > 0

\* What summarize_jd returned is empty or no record with a non-empty summary.
JobUnusable(r) == ~(IsDict(r) /\ HasKey(r, KeySummary) /\ Truthy(r.v[KeySummary]))

NothingDone ==
    /\ effects = NoEffects
    /\ candidates = <<>>
    /\ cv_index = 0
    /\ cv_data = PyNone
    /\ match_score = PyNone

\* C10: when the job extraction returns an empty result or a record without a
\* non-empty summary, the run ends there with an error, and no candidate is
\* processed: no CV extraction, no scoring, no file or candidate saved, no
\* notification.
C10_JobFailureEndsRun ==
    /\ [](JobUnusable(jd_result) => (pc # "cvs" /\ NothingDone))
    /\ [][(pc = "job" /\ JobUnusable(jd_result'))
            => (pc' = "done" /\ response'.kind = "error" /\ NothingDone')]_vars

\* C10's case: the job record came back with an empty summary and the run
\* ended with the job-level error, nothing done.
C10_Witness ==
    /\ pc = "done"
    /\ IsDict(jd_result) /\ HasKey(jd_result, KeySummary)
    /\ jd_result.v[KeySummary] = PyStr(<<>>)
    /\ response = RenderError("Failed to process job description")
    /\ NothingDone

\* C11: candidates are processed in isolation.  No pass of the loop ends the
\* run, and every candidate whose record has a name and an e-mail address has
\* a result in the list: the passes that got as far as storing the CV file
\* are passes over such a record, and each of them has appended its result.
C11_UsableCandidatesGiveResults ==
    /\ pc = "cvs" => response = NoResponse
    /\ pc \in {"cvs", "done"} => Len(candidates) >= effects.files

\* C13: in each extraction the credential validation comes before any
\* generation call.  A generate_content call is made only after
\* validate_api_key was called earlier in the same extraction and returned
\* true; and when the validation fails the extraction returns the empty
\* result and has made no generation call.
C13_ValidationBeforeGeneration ==
    ExtCalled =>
        /\ \A i \in 1..Len(ext_calls) :
              ext_calls[i] = "generate_content" =>
                  /\ ext_env.key_valid
                  /\ \E j \in 1..(i - 1) : ext_calls[j] = "validate_api_key"
        /\ (CountOf(ext_calls, "validate_api_key") > 0 /\ ~ext_env.key_valid) =>
              /\ ext_out = Return(EmptyDict)
              /\ CountOf(ext_calls, "generate_content") = 0

\* C13's case: an extraction that validated the key and then called the
\* provider more than once, the first attempt answered by a quota error.
C13_Witness ==
    /\ ExtCalled
    /\ ext_env.key_valid
    /\ CountOf(ext_calls, "validate_api_key") = 1
    /\ CountOf(ext_calls, "generate_content") >= 2

\* The response the provider gave to the call's last attempt, for a call
\* that did not fail.
ProviderAnswer(sc) ==
    LET at(i) == sc[IF i <= Len(sc) THEN i ELSE Len(sc)]
    IN  IF at(1).ok THEN at(1).text ELSE IF at(2).ok THEN at(2).text ELSE at(3).text

\* The model's output as extract_cv_data parses it.
ParsedOutput == ParseResponse(PyStr(ProviderAnswer(ext_env.script)))

\* extract_cv_data got a record out of the model's output.
ParsedARecord ==
    /\ ExtCalled
    /\ ext_fn = "cv"
    /\ ext_text.t = "str"
    /\ \E k \in 1..Len(ext_text.v) : ext_text.v[k] \notin Whitespace
    /\ ext_env.key_valid
    /\ ~ProviderFailed(ext_env.script)
    /\ ParsedOutput.kind = "return"
    /\ IsDict(ParsedOutput.value)

\* The record has no e-mail address: the field is absent, null or empty.
LacksEmail(rec) ==
    \/ ~HasKey(rec, KeyEmail)
    \/ rec.v[KeyEmail] = PyNone
    \/ rec.v[KeyEmail] = PyStr(<<>>)

\* C14: the e-mail back-fill of extract_cv_data.  When the parsed output has
\* no e-mail address (absent, null or empty) and the scan of the CV's text
\* found one, the returned record is the parsed one with that address as its
\* email; when the parsed output has an address, or the scan found none, the
\* parsed record is returned as it is, in the second case without a usable
\* email.
C14_EmailBackfill ==
    ParsedARecord =>
        LET rec == ParsedOutput.value
            found == EmailSearch(ext_text.v)
        IN  /\ ext_out.kind = "return"
            /\ IsDict(ext_out.value)
            /\ (LacksEmail(rec) /\ found # PyNone) =>
                  /\ DOMAIN ext_out.value.v = DOMAIN rec.v \cup {KeyEmail}
                  /\ ext_out.value.v[KeyEmail] = found
                  /\ \A k \in DOMAIN rec.v \ {KeyEmail} : ext_out.value.v[k] = rec.v[k]
            /\ ~LacksEmail(rec) => ext_out.value = rec
            /\ (LacksEmail(rec) /\ found = PyNone) =>
                  /\ ext_out.value = rec
                  /\ LacksEmail(ext_out.value)

\* C14's case: the model's output carried a null email, the CV's text held
\* an address, and the returned record has that address.
C14_Witness ==
    /\ ParsedARecord
    /\ HasKey(ParsedOutput.value, KeyEmail)
    /\ ParsedOutput.value.v[KeyEmail] = PyNone
    /\ EmailSearch(ext_text.v) = PyStr(TextMail)
    /\ ext_out.kind = "return"
    /\ ext_out.value.v[KeyEmail] = PyStr(TextMail)

=============================================================================
